---------------------------- MODULE Spec2Model ----------------------------
(***************************************************************************)
(* Model of the express-jobly backend: the authorization middleware        *)
(* (middleware/auth.js), the SQL fragment builders (helpers/sql.js,        *)
(* Job._makeWhereClause, Company._makeWhereClause) and the Job model over  *)
(* the jobs table (models/job.js).                                         *)
(***************************************************************************)
EXTENDS Integers, Sequences, FiniteSets, TLC

VARIABLES
    res,        \* outcome of the last operation that ran
    jobs,       \* the jobs table: set of rows
    nextId,     \* the SERIAL sequence behind jobs.id
    companies,  \* the companies table: set of handles
    users,      \* the users table: set of rows
    creating    \* the Company.create calls in flight: position and outcome

vars == <<res, jobs, nextId, companies, users, creating>>

(***************************************************************************)
(* Bounds of the model.                                                    *)
(***************************************************************************)
NumUsers == 2
MaxFields == 3
MaxJobs == 2
MaxEmployees == 2
NumCalls == 3

(***************************************************************************)
(* JavaScript values, tagged by their type.                                *)
(***************************************************************************)
Undef == [t |-> "undefined"]
Null == [t |-> "null"]
Str(s) == [t |-> "string", s |-> s]
Num(n) == [t |-> "number", n |-> n]
Bool(b) == [t |-> "boolean", b |-> b]

\* ToBoolean, as applied by `if (x)`, `!x` and `a || b`
Truthy(v) ==
    CASE v.t = "string" -> v.s # ""
      [] v.t = "number" -> v.n # 0
      [] v.t = "boolean" -> v.b
      [] v.t = "object" -> TRUE
      [] OTHER -> FALSE

\* a === b on primitives
StrictEq(a, b) == a.t = b.t /\ a = b

(***************************************************************************)
(* middleware/auth.js                                                      *)
(***************************************************************************)
Usernames == {"u" \o ToString(i) : i \in 1..NumUsers}

\* values the isAdmin field of a token payload may hold
IsAdminValues ==
    {Undef, Bool(TRUE), Bool(FALSE), Num(1), Num(0), Str("true"), Str("")}

\* res.locals.user: undefined, or the payload of the verified token
Identities ==
    {Undef} \cup [t : {"object"},
                   username : {Str(u) : u \in Usernames},
                   isAdmin : IsAdminValues]

\* req.body.password: undefined when the body has no such field
PasswordValues == {Undef, Null, Str(""), Str("pw")}

\* what the three ensure* functions read: res.locals.user, req.params, req.body
Requests ==
    [user : Identities,
     params : [username : {Str(u) : u \in Usernames}],
     body : [password : PasswordValues]]

NoArg == "next()"

TryNext_Swallow(thrown) == IF thrown = "none" THEN <<NoArg>> ELSE <<>>

\* try { ... return next() } catch (err) { return next(err) }
TryNext(thrown) == IF thrown = "none" THEN <<NoArg>> ELSE <<thrown>>

ensureLoggedIn_Deref(req) ==
    TryNext(IF req.user = Undef THEN "TypeError"
            ELSE IF ~Truthy(req.user.username) THEN "UnauthorizedError"
            ELSE "none")

ensureLoggedIn(req) ==
    TryNext(IF ~Truthy(req.user) THEN "UnauthorizedError" ELSE "none")

\* `!res.locals.user.isAdmin === true` parses as (!isAdmin) === true;
\* reading .isAdmin of undefined throws a TypeError inside the try block
ensureAdmin(req) ==
    TryNext(IF req.user = Undef THEN "TypeError"
            ELSE IF (~Truthy(req.user.isAdmin)) = TRUE THEN "UnauthorizedError"
            ELSE "none")

ensureUserOrAdmin_NoAdmin(req) ==
    TryNext(IF req.user = Undef THEN "TypeError"
            ELSE IF ~StrictEq(req.user.username, req.params.username)
                 THEN "UnauthorizedError"
            ELSE "none")

ensureUserOrAdmin(req) ==
    TryNext(IF Truthy(req.body.password)
            THEN IF req.user = Undef THEN "TypeError"
                 ELSE IF ~StrictEq(req.user.username, req.params.username)
                      THEN "UnauthorizedError"
                 ELSE "none"
            ELSE IF req.user = Undef THEN "TypeError"
                 ELSE IF ~(StrictEq(req.user.username, req.params.username)
                           \/ StrictEq(req.user.isAdmin, Bool(TRUE)))
                      THEN "UnauthorizedError"
                 ELSE "none")

EnsureLoggedIn ==
    \E req \in Requests :
        /\ res' = [op |-> "ensureLoggedIn", req |-> req, next |-> ensureLoggedIn(req)]
        /\ UNCHANGED <<jobs, nextId, companies, users, creating>>

EnsureAdmin ==
    \E req \in Requests :
        /\ res' = [op |-> "ensureAdmin", req |-> req, next |-> ensureAdmin(req)]
        /\ UNCHANGED <<jobs, nextId, companies, users, creating>>

EnsureUserOrAdmin ==
    \E req \in Requests :
        /\ res' = [op |-> "ensureUserOrAdmin", req |-> req, next |-> ensureUserOrAdmin(req)]
        /\ UNCHANGED <<jobs, nextId, companies, users, creating>>

(***************************************************************************)
(* SQL text.  A fragment is a sequence of lexical tokens: a double-quoted  *)
(* identifier, a $n placeholder, or literal text.  Text renders the string *)
(* the code builds.                                                        *)
(***************************************************************************)
Q(name) == [k |-> "ident", name |-> name]
P(n) == [k |-> "param", n |-> n]
W(s) == [k |-> "text", s |-> s]

TokText(tok) ==
    CASE tok.k = "ident" -> "\"" \o tok.name \o "\""
      [] tok.k = "param" -> "$" \o ToString(tok.n)
      [] OTHER -> tok.s

RECURSIVE Text(_)
Text(toks) == IF toks = <<>> THEN "" ELSE TokText(Head(toks)) \o Text(Tail(toks))

\* Array.prototype.join on an array of fragments
RECURSIVE Join(_, _)
Join(parts, sep) ==
    IF parts = <<>> THEN <<>>
    ELSE IF Len(parts) = 1 THEN parts[1]
    ELSE parts[1] \o <<W(sep)>> \o Join(Tail(parts), sep)

\* the pieces of a fragment between occurrences of the separator text
RECURSIVE Split(_, _)
Split(toks, sep) ==
    IF \A i \in 1..Len(toks) : toks[i] # W(sep) THEN <<toks>>
    ELSE LET i == CHOOSE j \in 1..Len(toks) :
                      toks[j] = W(sep) /\ \A h \in 1..(j - 1) : toks[h] # W(sep)
         IN <<SubSeq(toks, 1, i - 1)>> \o Split(SubSeq(toks, i + 1, Len(toks)), sep)

\* the placeholder numbers of a fragment, in order of appearance
RECURSIVE Placeholders(_)
Placeholders(toks) ==
    IF toks = <<>> THEN <<>>
    ELSE (IF Head(toks).k = "param" THEN <<Head(toks).n>> ELSE <<>>)
         \o Placeholders(Tail(toks))

(***************************************************************************)
(* helpers/sql.js                                                          *)
(***************************************************************************)
\* an object literal is a sequence of <<key, value>> entries, in key order
ObjectKeys(obj) == [i \in 1..Len(obj) |-> obj[i][1]]
ObjectValues(obj) == [i \in 1..Len(obj) |-> obj[i][2]]

\* tbl[key]: undefined when the table has no such key
Lookup(tbl, key) == IF key \in DOMAIN tbl THEN Str(tbl[key]) ELSE Undef

\* a || b
Or(a, b) == IF Truthy(a) THEN a ELSE b

JobJsToSql == [title |-> "title", salary |-> "salary", equity |-> "equity"]
CompanyJsToSql == [numEmployees |-> "num_employees", logoUrl |-> "logo_url"]

sqlForPartialUpdate_ZeroBased(dataToUpdate, jsToSql) ==
    LET keys == ObjectKeys(dataToUpdate)
        cols == [i \in 1..Len(keys) |->
                    <<Q(Or(Lookup(jsToSql, keys[i]), Str(keys[i])).s),
                      W("="), P(i - 1)>>]
    IN IF Len(keys) = 0
       THEN [threw |-> "BadRequestError", message |-> "No data"]
       ELSE [threw |-> "none",
             setCols |-> Join(cols, ", "),
             values |-> ObjectValues(dataToUpdate)]

sqlForPartialUpdate_NoCheck(dataToUpdate, jsToSql) ==
    LET keys == ObjectKeys(dataToUpdate)
        cols == [i \in 1..Len(keys) |->
                    <<Q(Or(Lookup(jsToSql, keys[i]), Str(keys[i])).s),
                      W("="), P(i)>>]
    IN [threw |-> "none",
        setCols |-> Join(cols, ", "),
        values |-> ObjectValues(dataToUpdate)]

\* a value written into the statement text as a literal
Literal(v) ==
    CASE v.t = "string" -> "'" \o v.s \o "'"
      [] v.t = "number" -> ToString(v.n)
      [] OTHER -> "NULL"

sqlForPartialUpdate_Inline(dataToUpdate, jsToSql) ==
    LET keys == ObjectKeys(dataToUpdate)
        cols == [i \in 1..Len(keys) |->
                    <<Q(Or(Lookup(jsToSql, keys[i]), Str(keys[i])).s),
                      W("="), W(Literal(dataToUpdate[i][2]))>>]
    IN IF Len(keys) = 0
       THEN [threw |-> "BadRequestError", message |-> "No data"]
       ELSE [threw |-> "none",
             setCols |-> Join(cols, ", "),
             values |-> ObjectValues(dataToUpdate)]

sqlForPartialUpdate_Unquoted(dataToUpdate, jsToSql) ==
    LET keys == ObjectKeys(dataToUpdate)
        cols == [i \in 1..Len(keys) |->
                    <<W(Or(Lookup(jsToSql, keys[i]), Str(keys[i])).s),
                      W("="), P(i)>>]
    IN IF Len(keys) = 0
       THEN [threw |-> "BadRequestError", message |-> "No data"]
       ELSE [threw |-> "none",
             setCols |-> Join(cols, ", "),
             values |-> ObjectValues(dataToUpdate)]

sqlForPartialUpdate_NoTranslate(dataToUpdate, jsToSql) ==
    LET keys == ObjectKeys(dataToUpdate)
        cols == [i \in 1..Len(keys) |-> <<Q(keys[i]), W("="), P(i)>>]
    IN IF Len(keys) = 0
       THEN [threw |-> "BadRequestError", message |-> "No data"]
       ELSE [threw |-> "none",
             setCols |-> Join(cols, ", "),
             values |-> ObjectValues(dataToUpdate)]

\* idx of keys.map is 0-based; the model's index i is idx + 1
sqlForPartialUpdate(dataToUpdate, jsToSql) ==
    LET keys == ObjectKeys(dataToUpdate)
        cols == [i \in 1..Len(keys) |->
                    <<Q(Or(Lookup(jsToSql, keys[i]), Str(keys[i])).s),
                      W("="), P(i)>>]
    IN IF Len(keys) = 0
       THEN [threw |-> "BadRequestError", message |-> "No data"]
       ELSE [threw |-> "none",
             setCols |-> Join(cols, ", "),
             values |-> ObjectValues(dataToUpdate)]

(***************************************************************************)
(* Job._makeWhereClause and Company._makeWhereClause                       *)
(***************************************************************************)
\* `%${x}%`
Wrap(x) == Str("%" \o x.s \o "%")

JobMakeWhereClause_EquityParam(searchTerms) ==
    LET title == searchTerms.title
        minSalary == searchTerms.minSalary
        hasEquity == searchTerms.hasEquity
        c1 == IF Truthy(title) THEN <<<<W("title ILIKE "), P(1)>>>> ELSE <<>>
        v1 == IF Truthy(title) THEN <<Wrap(title)>> ELSE <<>>
        c2 == IF Truthy(minSalary)
              THEN Append(c1, <<W("salary >= "), P(Len(v1) + 1)>>) ELSE c1
        v2 == IF Truthy(minSalary) THEN Append(v1, minSalary) ELSE v1
        c3 == IF StrictEq(hasEquity, Str("true"))
              THEN Append(c2, <<W("equity > "), P(Len(v2) + 1)>>)
              ELSE Append(c2, <<W("1=1")>>)
    IN [threw |-> "none", whereClause |-> Join(c3, " AND "), values |-> v2]

JobMakeWhereClause_Truthy(searchTerms) ==
    LET title == searchTerms.title
        minSalary == searchTerms.minSalary
        hasEquity == searchTerms.hasEquity
        c1 == IF Truthy(title) THEN <<<<W("title ILIKE "), P(1)>>>> ELSE <<>>
        v1 == IF Truthy(title) THEN <<Wrap(title)>> ELSE <<>>
        c2 == IF Truthy(minSalary)
              THEN Append(c1, <<W("salary >= "), P(Len(v1) + 1)>>) ELSE c1
        v2 == IF Truthy(minSalary) THEN Append(v1, minSalary) ELSE v1
        c3 == IF Truthy(hasEquity)
              THEN Append(c2, <<W("equity > 0.0")>>)
              ELSE Append(c2, <<W("1=1")>>)
    IN [threw |-> "none", whereClause |-> Join(c3, " AND "), values |-> v2]

JobMakeWhereClause(searchTerms) ==
    LET title == searchTerms.title
        minSalary == searchTerms.minSalary
        hasEquity == searchTerms.hasEquity
        c1 == IF Truthy(title) THEN <<<<W("title ILIKE "), P(1)>>>> ELSE <<>>
        v1 == IF Truthy(title) THEN <<Wrap(title)>> ELSE <<>>
        c2 == IF Truthy(minSalary)
              THEN Append(c1, <<W("salary >= "), P(Len(v1) + 1)>>) ELSE c1
        v2 == IF Truthy(minSalary) THEN Append(v1, minSalary) ELSE v1
        c3 == IF StrictEq(hasEquity, Str("true"))
              THEN Append(c2, <<W("equity > 0.0")>>)
              ELSE Append(c2, <<W("1=1")>>)
    IN [threw |-> "none", whereClause |-> Join(c3, " AND "), values |-> v2]

CompanyMakeWhereClause_FixedIndex(searchTerms) ==
    LET name == searchTerms.name
        minEmployees == searchTerms.minEmployees
        maxEmployees == searchTerms.maxEmployees
        c1 == IF Truthy(name) THEN <<<<W("name ILIKE "), P(0 + 1)>>>> ELSE <<>>
        v1 == IF Truthy(name) THEN <<Wrap(name)>> ELSE <<>>
        c2 == IF Truthy(minEmployees)
              THEN Append(c1, <<W("num_employees >= "), P(2)>>) ELSE c1
        v2 == IF Truthy(minEmployees) THEN Append(v1, minEmployees) ELSE v1
        c3 == IF Truthy(maxEmployees)
              THEN Append(c2, <<W("num_employees <= "), P(3)>>) ELSE c2
        v3 == IF Truthy(maxEmployees) THEN Append(v2, maxEmployees) ELSE v2
    IN IF Truthy(maxEmployees) /\ Truthy(minEmployees)
          /\ minEmployees.n > maxEmployees.n
       THEN [threw |-> "BadRequestError",
             message |-> "maxEmployees must be higher than minEmployees"]
       ELSE [threw |-> "none", whereClause |-> Join(c3, " AND "), values |-> v3]

CompanyMakeWhereClause(searchTerms) ==
    LET name == searchTerms.name
        minEmployees == searchTerms.minEmployees
        maxEmployees == searchTerms.maxEmployees
        c1 == IF Truthy(name) THEN <<<<W("name ILIKE "), P(0 + 1)>>>> ELSE <<>>
        v1 == IF Truthy(name) THEN <<Wrap(name)>> ELSE <<>>
        c2 == IF Truthy(minEmployees)
              THEN Append(c1, <<W("num_employees >= "), P(Len(v1) + 1)>>) ELSE c1
        v2 == IF Truthy(minEmployees) THEN Append(v1, minEmployees) ELSE v1
        c3 == IF Truthy(maxEmployees)
              THEN Append(c2, <<W("num_employees <= "), P(Len(v2) + 1)>>) ELSE c2
        v3 == IF Truthy(maxEmployees) THEN Append(v2, maxEmployees) ELSE v2
    IN IF Truthy(maxEmployees) /\ Truthy(minEmployees)
          /\ minEmployees.n > maxEmployees.n
       THEN [threw |-> "BadRequestError",
             message |-> "maxEmployees must be higher than minEmployees"]
       ELSE [threw |-> "none", whereClause |-> Join(c3, " AND "), values |-> v3]

(***************************************************************************)
(* Inputs of the builders.                                                 *)
(***************************************************************************)
FieldNames == {"title", "numEmployees", "logoUrl"}
FieldValues == {Null, Num(0), Str("x")}

\* objects of at most n entries over the given keys, keys pairwise distinct
RECURSIVE MapsUpTo(_, _, _)
MapsUpTo(n, keys, vals) ==
    IF n = 0 THEN {<<>>}
    ELSE LET shorter == MapsUpTo(n - 1, keys, vals)
             longest == {x \in shorter : Len(x) = n - 1}
             Fresh(m) == {key \in keys : \A i \in 1..Len(m) : m[i][1] # key}
         IN shorter \cup
            UNION {{Append(m, <<key, v>>) : key \in Fresh(m), v \in vals} :
                      m \in longest}

UpdateMaps == MapsUpTo(MaxFields, FieldNames, FieldValues)

JobSearchTerms ==
    [title : {Undef, Str(""), Str("a")},
     minSalary : {Undef, Num(0), Num(1000)},
     hasEquity : {Undef, Bool(TRUE), Bool(FALSE), Str("true"), Str("false")}]

EmployeeBounds == {Undef} \cup {Num(n) : n \in 0..MaxEmployees}
CompanySearchTerms ==
    [name : {Undef, Str(""), Str("a")},
     minEmployees : EmployeeBounds,
     maxEmployees : EmployeeBounds]

SqlForPartialUpdate ==
    \E data \in UpdateMaps, jsToSql \in {JobJsToSql, CompanyJsToSql} :
        /\ res' = [op |-> "sqlForPartialUpdate", data |-> data, jsToSql |-> jsToSql,
                   out |-> sqlForPartialUpdate(data, jsToSql)]
        /\ UNCHANGED <<jobs, nextId, companies, users, creating>>

\* const { ... } = searchTerms: the named properties of an object, undefined
\* for a key the object does not have
Destructure(obj, names) ==
    [k \in names |->
        IF \E i \in 1..Len(obj) : obj[i][1] = k
        THEN obj[CHOOSE i \in 1..Len(obj) : obj[i][1] = k][2]
        ELSE Undef]

\* the objects, in every key order, whose properties are the given terms
ObjectsOf(termSet) ==
    LET names == DOMAIN (CHOOSE t \in termSet : TRUE)
        vals == UNION {{t[k] : k \in names} : t \in termSet} \ {Undef}
    IN {obj \in MapsUpTo(Cardinality(names), names, vals) :
            Destructure(obj, names) \in termSet}

JobSearchObjects == ObjectsOf(JobSearchTerms)
CompanySearchObjects == ObjectsOf(CompanySearchTerms)

JobWhere ==
    \E obj \in JobSearchObjects :
        /\ res' = [op |-> "Job._makeWhereClause", obj |-> obj,
                   terms |-> Destructure(obj, {"title", "minSalary", "hasEquity"}),
                   out |-> JobMakeWhereClause(
                              Destructure(obj, {"title", "minSalary", "hasEquity"}))]
        /\ UNCHANGED <<jobs, nextId, companies, users, creating>>

CompanyWhere ==
    \E obj \in CompanySearchObjects :
        /\ res' = [op |-> "Company._makeWhereClause", obj |-> obj,
                   terms |-> Destructure(obj, {"name", "minEmployees", "maxEmployees"}),
                   out |-> CompanyMakeWhereClause(
                              Destructure(obj, {"name", "minEmployees", "maxEmployees"}))]
        /\ UNCHANGED <<jobs, nextId, companies, users, creating>>

(***************************************************************************)
(* The store behind db.query: the statements the models send, executed on  *)
(* the jobs and companies tables.                                          *)
(***************************************************************************)
JobColumns == {"id", "title", "salary", "equity", "company_handle"}

\* str.toLowerCase() over the titles of the model
LowerCase(str) == CASE str = "A" -> "a" [] str = "B" -> "b" [] OTHER -> str

Affixes == {"", "a", "b"}
Needles == {"a", "b", "A", "B"}

\* title ILIKE pattern, for the patterns %needle%
ILike(title, pattern) ==
    /\ title.t = "string"
    /\ \E needle \in Needles :
          /\ pattern = Str("%" \o needle \o "%")
          /\ \E pre \in Affixes, post \in Affixes :
                LowerCase(title.s) = pre \o LowerCase(needle) \o post

\* NUMERIC columns come back from the driver as strings
NumericOut(v) == IF v.t = "number" THEN Str(ToString(v.n)) ELSE v

\* RETURNING / SELECT id, title, salary, equity, company_handle AS "companyHandle"
RowOut(row) ==
    [id |-> row.id, title |-> row.title, salary |-> row.salary,
     equity |-> NumericOut(row.equity), companyHandle |-> row.company_handle]

\* ORDER BY id
RECURSIVE OrderById(_)
OrderById(rows) ==
    IF rows = {} THEN <<>>
    ELSE LET first == CHOOSE r \in rows : \A o \in rows : r.id <= o.id
         IN <<RowOut(first)>> \o OrderById(rows \ {first})

ValidParam(tok, values) == tok.k = "param" /\ tok.n \in 1..Len(values)

\* one clause of a WHERE fragment, evaluated on a row
EvalClause(clause, values, row) ==
    CASE clause = <<W("1=1")>> -> TRUE
      [] clause = <<W("equity > 0.0")>> ->
            row.equity.t = "number" /\ row.equity.n > 0
      [] Len(clause) = 2 /\ clause[1] = W("title ILIKE ") ->
            ILike(row.title, values[clause[2].n])
      [] Len(clause) = 2 /\ clause[1] = W("salary >= ") ->
            row.salary.t = "number" /\ row.salary.n >= values[clause[2].n].n
      [] OTHER -> FALSE

ClauseOk(clause, values) ==
    \/ clause \in {<<W("1=1")>>, <<W("equity > 0.0")>>}
    \/ /\ Len(clause) = 2
       /\ clause[1] \in {W("title ILIKE "), W("salary >= ")}
       /\ ValidParam(clause[2], values)

\* SELECT ... FROM jobs WHERE <whereClause> ORDER BY id
DbSelectJobsWhere(whereClause, values, table) ==
    LET clauses == Split(whereClause, " AND ")
    IN IF whereClause = <<>>
          \/ \E i \in 1..Len(clauses) : ~ClauseOk(clauses[i], values)
       THEN [threw |-> "DatabaseError", rows |-> <<>>]
       ELSE [threw |-> "none",
             rows |-> OrderById({row \in table :
                         \A i \in 1..Len(clauses) :
                             EvalClause(clauses[i], values, row)})]

SetOk(clause, values) ==
    /\ Len(clause) = 3
    /\ clause[1].k = "ident"
    /\ clause[1].name \in JobColumns
    /\ clause[2] = W("=")
    /\ ValidParam(clause[3], values)

\* UPDATE jobs SET <setCols> WHERE id=<idVarIdx> RETURNING ...
DbUpdateJobs(setCols, idVarIdx, values, table) ==
    LET clauses == Split(setCols, ", ")
        Assign(row) ==
            [col \in JobColumns |->
                IF \E i \in 1..Len(clauses) : clauses[i][1].name = col
                THEN values[(CHOOSE c \in {clauses[i] : i \in 1..Len(clauses)} :
                                c[1].name = col)[3].n]
                ELSE row[col]]
        hit == {row \in table : row.id = values[idVarIdx.n]}
    IN IF setCols = <<>>
          \/ ~ValidParam(idVarIdx, values)
          \/ (\E i \in 1..Len(clauses) : ~SetOk(clauses[i], values))
          \/ (\E i, j \in 1..Len(clauses) :
                i # j /\ clauses[i][1].name = clauses[j][1].name)
       THEN [threw |-> "DatabaseError", rows |-> <<>>, table |-> table]
       ELSE [threw |-> "none",
             rows |-> OrderById({Assign(row) : row \in hit}),
             table |-> (table \ hit) \cup {Assign(row) : row \in hit}]

(***************************************************************************)
(* models/job.js                                                           *)
(***************************************************************************)
Stmt(sql, values) == [sql |-> sql, values |-> values]

\* a record without its table field
Outcome(r) == [f \in DOMAIN r \ {"table"} |-> r[f]]

Job_create_NoCheck(data, table, id, handles) ==
    LET check == Stmt(<<W("SELECT handle FROM companies WHERE handle = "), P(1)>>,
                      <<data.companyHandle>>)
        insert == Stmt(<<W("INSERT INTO jobs(title, salary, equity, company_handle) VALUES ("),
                         P(1), W(", "), P(2), W(", "), P(3), W(", "), P(4), W(")")>>,
                       <<data.title, data.salary, data.equity, data.companyHandle>>)
        row == [id |-> id, title |-> data.title, salary |-> data.salary,
                equity |-> data.equity, company_handle |-> data.companyHandle]
    IN [threw |-> "none", ret |-> RowOut(row), stmts |-> <<check, insert>>,
        table |-> table \cup {row}]

\* Job.create(data) on the given tables, with id the next value of jobs.id
Job_create(data, table, id, handles) ==
    LET check == Stmt(<<W("SELECT handle FROM companies WHERE handle = "), P(1)>>,
                      <<data.companyHandle>>)
        insert == Stmt(<<W("INSERT INTO jobs(title, salary, equity, company_handle) VALUES ("),
                         P(1), W(", "), P(2), W(", "), P(3), W(", "), P(4), W(")")>>,
                       <<data.title, data.salary, data.equity, data.companyHandle>>)
        row == [id |-> id, title |-> data.title, salary |-> data.salary,
                equity |-> data.equity, company_handle |-> data.companyHandle]
    IN IF data.companyHandle \notin handles
       THEN [threw |-> "BadRequestError", stmts |-> <<check>>, table |-> table]
       ELSE [threw |-> "none", ret |-> RowOut(row), stmts |-> <<check, insert>>,
             table |-> table \cup {row}]

Job_findAll(table) ==
    [threw |-> "none", ret |-> OrderById(table),
     stmts |-> <<Stmt(<<W("SELECT id, title, salary, equity, company_handle AS \"companyHandle\" FROM jobs ORDER BY id")>>, <<>>)>>,
     table |-> table]

Job_filterSearch(searchTerms, table) ==
    LET w == JobMakeWhereClause(searchTerms)
        q == DbSelectJobsWhere(w.whereClause, w.values, table)
    IN [where |-> w, threw |-> q.threw, ret |-> q.rows,
        stmts |-> <<Stmt(<<W("SELECT id, title, salary, equity, company_handle AS \"companyHandle\" FROM jobs WHERE ")>>
                         \o w.whereClause \o <<W(" ORDER BY id")>>, w.values)>>,
        table |-> table]

Job_get(id, table) ==
    LET hit == {row \in table : row.id = id}
        sent == <<Stmt(<<W("SELECT id, title, salary, equity, company_handle AS \"companyHandle\" FROM jobs WHERE id = "), P(1)>>,
                       <<id>>)>>
    IN IF hit = {}
       THEN [threw |-> "NotFoundError", stmts |-> sent, table |-> table]
       ELSE [threw |-> "none", ret |-> OrderById(hit)[1], stmts |-> sent,
             table |-> table]

Job_update_NoNotFound(id, data, table) ==
    LET s == sqlForPartialUpdate(data, JobJsToSql)
        idVarIdx == P(Len(s.values) + 1)
        querySql == <<W("UPDATE jobs SET ")>> \o s.setCols
                    \o <<W(" WHERE id="), idVarIdx,
                         W(" RETURNING id, title, salary, equity, company_handle as \"companyHandle\"")>>
        values == Append(s.values, id)
        q == DbUpdateJobs(s.setCols, idVarIdx, values, table)
    IN IF s.threw # "none"
       THEN [threw |-> s.threw, message |-> s.message, stmts |-> <<>>, table |-> table]
       ELSE IF q.threw # "none"
       THEN [threw |-> q.threw, stmts |-> <<Stmt(querySql, values)>>, table |-> q.table]
       ELSE [threw |-> "none",
             ret |-> IF q.rows = <<>> THEN Undef ELSE q.rows[1],
             stmts |-> <<Stmt(querySql, values)>>, table |-> q.table]

Job_update_AliasId(id, data, table) ==
    LET s == sqlForPartialUpdate(data, JobJsToSql)
        idVarIdx == P(Len(s.values))
        querySql == <<W("UPDATE jobs SET ")>> \o s.setCols
                    \o <<W(" WHERE id="), idVarIdx,
                         W(" RETURNING id, title, salary, equity, company_handle as \"companyHandle\"")>>
        values == Append(s.values, id)
        q == DbUpdateJobs(s.setCols, idVarIdx, values, table)
    IN IF s.threw # "none"
       THEN [threw |-> s.threw, message |-> s.message, stmts |-> <<>>, table |-> table]
       ELSE IF q.threw # "none"
       THEN [threw |-> q.threw, stmts |-> <<Stmt(querySql, values)>>, table |-> q.table]
       ELSE IF q.rows = <<>>
       THEN [threw |-> "NotFoundError", stmts |-> <<Stmt(querySql, values)>>,
             table |-> q.table]
       ELSE [threw |-> "none", ret |-> q.rows[1],
             stmts |-> <<Stmt(querySql, values)>>, table |-> q.table]

Job_update(id, data, table) ==
    LET s == sqlForPartialUpdate(data, JobJsToSql)
        idVarIdx == P(Len(s.values) + 1)
        querySql == <<W("UPDATE jobs SET ")>> \o s.setCols
                    \o <<W(" WHERE id="), idVarIdx,
                         W(" RETURNING id, title, salary, equity, company_handle as \"companyHandle\"")>>
        values == Append(s.values, id)
        q == DbUpdateJobs(s.setCols, idVarIdx, values, table)
    IN IF s.threw # "none"
       THEN [threw |-> s.threw, message |-> s.message, stmts |-> <<>>, table |-> table]
       ELSE IF q.threw # "none"
       THEN [threw |-> q.threw, stmts |-> <<Stmt(querySql, values)>>, table |-> q.table]
       ELSE IF q.rows = <<>>
       THEN [threw |-> "NotFoundError", stmts |-> <<Stmt(querySql, values)>>,
             table |-> q.table]
       ELSE [threw |-> "none", ret |-> q.rows[1],
             stmts |-> <<Stmt(querySql, values)>>, table |-> q.table]

Job_remove_Silent(id, table) ==
    LET hit == {row \in table : row.id = id}
    IN [threw |-> "none",
        stmts |-> <<Stmt(<<W("DELETE FROM jobs WHERE id = "), P(1), W(" RETURNING id")>>,
                         <<id>>)>>,
        table |-> table \ hit]

Job_remove(id, table) ==
    LET hit == {row \in table : row.id = id}
    IN [threw |-> IF hit = {} THEN "NotFoundError" ELSE "none",
        stmts |-> <<Stmt(<<W("DELETE FROM jobs WHERE id = "), P(1), W(" RETURNING id")>>,
                         <<id>>)>>,
        table |-> table \ hit]

(***************************************************************************)
(* models/company.js: update.  The companies table holds handles only, so  *)
(* the statement is built and routed in full but the columns it sets are   *)
(* not stored.                                                             *)
(***************************************************************************)
CompanyColumns == {"handle", "name", "description", "num_employees", "logo_url"}

\* UPDATE companies SET <setCols> WHERE handle = <handleVarIdx> RETURNING ...
DbUpdateCompanies(setCols, handleVarIdx, values, handles) ==
    LET clauses == Split(setCols, ", ")
    IN IF setCols = <<>>
          \/ ~ValidParam(handleVarIdx, values)
          \/ (\E i \in 1..Len(clauses) :
                 ~(/\ Len(clauses[i]) = 3
                   /\ clauses[i][1].k = "ident"
                   /\ clauses[i][1].name \in CompanyColumns
                   /\ clauses[i][2] = W("=")
                   /\ ValidParam(clauses[i][3], values)))
       THEN [threw |-> "DatabaseError", rows |-> <<>>]
       ELSE [threw |-> "none",
             rows |-> IF values[handleVarIdx.n] \in {Str(h) : h \in handles}
                      THEN <<[handle |-> values[handleVarIdx.n]]>> ELSE <<>>]

\* Company.update(handle, data)
Company_update(handle, data, handles) ==
    LET s == sqlForPartialUpdate(data, CompanyJsToSql)
        handleVarIdx == P(Len(s.values) + 1)
        querySql == <<W("UPDATE companies SET ")>> \o s.setCols
                    \o <<W(" WHERE handle = "), handleVarIdx,
                         W(" RETURNING handle, name, description, num_employees AS \"numEmployees\", logo_url AS \"logoUrl\"")>>
        values == Append(s.values, handle)
        q == DbUpdateCompanies(s.setCols, handleVarIdx, values, handles)
    IN IF s.threw # "none"
       THEN [threw |-> s.threw, message |-> s.message, stmts |-> <<>>]
       ELSE IF q.threw # "none"
       THEN [threw |-> q.threw, stmts |-> <<Stmt(querySql, values)>>]
       ELSE IF q.rows = <<>>
       THEN [threw |-> "NotFoundError", stmts |-> <<Stmt(querySql, values)>>]
       ELSE [threw |-> "none", ret |-> q.rows[1], stmts |-> <<Stmt(querySql, values)>>]

CompanyUpdate(handle, data) ==
    /\ res' = [op |-> "Company.update", handle |-> handle, data |-> data]
                 @@ Company_update(handle, data, companies)
    /\ UNCHANGED <<jobs, nextId, companies, users, creating>>

JobCreate(data) ==
    LET r == Job_create(data, jobs, nextId, companies)
    IN /\ r.threw = "none" => nextId <= MaxJobs
       /\ res' = [op |-> "Job.create", data |-> data] @@ Outcome(r)
       /\ jobs' = r.table
       /\ nextId' = IF r.threw = "none" THEN nextId + 1 ELSE nextId
       /\ UNCHANGED <<companies, users, creating>>

JobFindAll ==
    /\ res' = [op |-> "Job.findAll"] @@ Outcome(Job_findAll(jobs))
    /\ UNCHANGED <<jobs, nextId, companies, users, creating>>

JobFilterSearch(searchTerms) ==
    /\ res' = [op |-> "Job.filterSearch", terms |-> searchTerms]
                 @@ Outcome(Job_filterSearch(searchTerms, jobs))
    /\ UNCHANGED <<jobs, nextId, companies, users, creating>>

JobGet(id) ==
    /\ res' = [op |-> "Job.get", id |-> id] @@ Outcome(Job_get(id, jobs))
    /\ UNCHANGED <<jobs, nextId, companies, users, creating>>

JobUpdate(id, data) ==
    LET r == Job_update(id, data, jobs)
    IN /\ res' = [op |-> "Job.update", id |-> id, data |-> data] @@ Outcome(r)
       /\ jobs' = r.table
       /\ UNCHANGED <<nextId, companies, users, creating>>

JobRemove(id) ==
    LET r == Job_remove(id, jobs)
    IN /\ res' = [op |-> "Job.remove", id |-> id] @@ Outcome(r)
       /\ jobs' = r.table
       /\ UNCHANGED <<nextId, companies, users, creating>>

(***************************************************************************)
(* Inputs of the Job model.                                                *)
(***************************************************************************)
JobIds == 1..(MaxJobs + 1)

NewJobs ==
    {[title |-> Str("a"), salary |-> Num(1000), equity |-> Num(1), companyHandle |-> "c1"],
     [title |-> Str("B"), salary |-> Num(2000), equity |-> Num(0), companyHandle |-> "c1"],
     [title |-> Str("a"), salary |-> Num(1000), equity |-> Num(1), companyHandle |-> "nope"]}

\* update maps over title and equity, in either key order
JobUpdateMaps ==
    {m \in MapsUpTo(MaxFields, {"title", "equity"}, {Str("B"), Null}) :
        \A i \in 1..Len(m) : (m[i][1] = "title") <=> (m[i][2] = Str("B"))}

JobFilters ==
    [title : {Undef, Str("b")},
     minSalary : {Undef, Num(1500)},
     hasEquity : {Undef, Bool(TRUE), Str("true"), Str("false")}]

Create == \E data \in NewJobs : JobCreate(data)
FindAll == JobFindAll
FilterSearch == \E terms \in JobFilters : JobFilterSearch(terms)
Get == \E id \in JobIds : JobGet(id)
Update == \E id \in JobIds, data \in JobUpdateMaps : JobUpdate(id, data)
Remove == \E id \in JobIds : JobRemove(id)

(***************************************************************************)
(* Requests.  The Authorization header is a string holding a token;        *)
(* jwt.verify accepts the tokens signed with SECRET_KEY and throws on      *)
(* every other string.                                                     *)
(***************************************************************************)
\* the token createToken signs for a user
TokenOf(username, isAdmin) ==
    "tok." \o username \o (IF isAdmin THEN ".admin" ELSE ".user")

ValidTokens == {TokenOf(u, a) : u \in Usernames, a \in BOOLEAN}

TokenStrings == ValidTokens \cup {"garbage"}

\* jwt.verify(token, SECRET_KEY)
jwt_verify(token) ==
    IF token \in ValidTokens
    THEN LET ua == CHOOSE ua \in Usernames \X BOOLEAN : TokenOf(ua[1], ua[2]) = token
         IN [threw |-> "none",
             payload |-> [t |-> "object", username |-> Str(ua[1]), isAdmin |-> Bool(ua[2])]]
    ELSE [threw |-> "JsonWebTokenError"]

\* authHeader.replace(/^[Bb]earer /, "").trim()
BearerToken(authHeader) ==
    IF \E k \in TokenStrings : authHeader.s \in {"Bearer " \o k, "bearer " \o k}
    THEN CHOOSE k \in TokenStrings : authHeader.s \in {"Bearer " \o k, "bearer " \o k}
    ELSE authHeader.s

authenticateJWT_Rethrow(headers) ==
    LET authHeader == headers.authorization
        v == jwt_verify(BearerToken(authHeader))
    IN IF ~Truthy(authHeader) THEN [user |-> Undef, next |-> <<NoArg>>]
       ELSE IF v.threw # "none" THEN [user |-> Undef, next |-> <<v.threw>>]
       ELSE [user |-> v.payload, next |-> <<NoArg>>]

\* res.locals.user after authenticateJWT, and what it passes to next
authenticateJWT(headers) ==
    LET authHeader == headers.authorization
        v == jwt_verify(BearerToken(authHeader))
    IN IF ~Truthy(authHeader) THEN [user |-> Undef, next |-> <<NoArg>>]
       ELSE IF v.threw # "none" THEN [user |-> Undef, next |-> <<NoArg>>]
       ELSE [user |-> v.payload, next |-> <<NoArg>>]

\* a request that stops at a middleware: the handler does not run
Stopped(next, table) ==
    [ran |-> FALSE, threw |-> next[1], calls |-> <<>>, stmts |-> <<>>, table |-> table]

\* a request whose handler ran with outcome r
Handled(calls, r) == [ran |-> TRUE, calls |-> calls] @@ r

\* a handler that throws before it calls a model method
Thrown(kind, message, table) ==
    [threw |-> kind, message |-> message, stmts |-> <<>>, table |-> table]

(***************************************************************************)
(* routes/jobs.js                                                          *)
(***************************************************************************)
\* Number(s) for the query strings in use; NaN for a non-numeric string
NaN == [t |-> "NaN"]
Numerals == {-5, 0, 1500}
Number(v) ==
    IF \E n \in Numerals : v.s = ToString(n)
    THEN Num(CHOOSE n \in Numerals : v.s = ToString(n))
    ELSE NaN

QueryKeys == {"title", "minSalary", "hasEquity", "color"}

\* jsonschema.validate(req.query, jobFilterSchema).valid
JobFilterSchemaValid(query) == query.color = Undef

\* jsonschema.validate(req.body, jobNewSchema).valid
JobNewSchemaValid(body) ==
    /\ body.title.t = "string"
    /\ body.salary.t = "number"
    /\ body.equity.t \in {"number", "null"}

\* jsonschema.validate(req.body, jobUpdateSchema).valid
JobUpdateSchemaValid(body) ==
    \A i \in 1..Len(body) : body[i][1] \in {"title", "salary", "equity"}

GetJobs_TruthyOnly(req, table) ==
    LET title == req.query.title
        minSalary == req.query.minSalary
        hasEquity == req.query.hasEquity
        searchTerms ==
            [title |-> IF Truthy(title) THEN title ELSE Undef,
             minSalary |-> IF Truthy(minSalary) THEN Number(minSalary) ELSE Undef,
             hasEquity |-> IF Truthy(hasEquity) THEN hasEquity ELSE Undef]
    IN IF \E k \in QueryKeys : req.query[k] # Undef
       THEN IF ~JobFilterSchemaValid(req.query)
            THEN Handled(<<>>, Thrown("BadRequestError", "schema", table))
            ELSE IF Truthy(minSalary) /\ ~Truthy(Number(minSalary))
            THEN Handled(<<>>, Thrown("BadRequestError", "minSalary must be a number", table))
            ELSE IF Truthy(hasEquity)
                    /\ ~Truthy(Or(Bool(StrictEq(hasEquity, Str("true"))), Str("false")))
            THEN Handled(<<>>, Thrown("BadRequestError", "hasEquity must be a boolean", table))
            ELSE Handled(<<"Job.filterSearch">>, Job_filterSearch(searchTerms, table))
       ELSE Handled(<<"Job.findAll">>, Job_findAll(table))

\* router.get("/")
GetJobs(req, table) ==
    LET title == req.query.title
        minSalary == req.query.minSalary
        hasEquity == req.query.hasEquity
        searchTerms ==
            [title |-> IF Truthy(title) THEN title ELSE Undef,
             minSalary |-> IF Truthy(minSalary) THEN Number(minSalary) ELSE Undef,
             hasEquity |-> IF Truthy(hasEquity) THEN hasEquity ELSE Undef]
    IN IF \E k \in QueryKeys : req.query[k] # Undef
       THEN IF ~JobFilterSchemaValid(req.query)
            THEN Handled(<<>>, Thrown("BadRequestError", "schema", table))
            ELSE IF Truthy(minSalary)
                    /\ ~(Truthy(Number(minSalary)) /\ Number(minSalary).n > 0)
            THEN Handled(<<>>, Thrown("BadRequestError", "minSalary must be a number", table))
            ELSE IF Truthy(hasEquity)
                    /\ ~Truthy(Or(Bool(StrictEq(hasEquity, Str("true"))), Str("false")))
            THEN Handled(<<>>, Thrown("BadRequestError", "hasEquity must be a boolean", table))
            ELSE Handled(<<"Job.filterSearch">>, Job_filterSearch(searchTerms, table))
       ELSE Handled(<<"Job.findAll">>, Job_findAll(table))

\* router.get("/:id")
GetJob(req, table) == Handled(<<"Job.get">>, Job_get(req.params.id, table))

\* router.post("/", ensureAdmin, ...)
PostJob(req, table, id, handles) ==
    IF ensureAdmin(req) # <<NoArg>> THEN Stopped(ensureAdmin(req), table)
    ELSE IF ~JobNewSchemaValid(req.body)
    THEN Handled(<<>>, Thrown("BadRequestError", "schema", table))
    ELSE Handled(<<"Job.create">>, Job_create(req.body, table, id, handles))

PatchJob_NoGuard(req, table) ==
    IF ~JobUpdateSchemaValid(req.body)
    THEN Handled(<<>>, Thrown("BadRequestError", "schema", table))
    ELSE Handled(<<"Job.update">>, Job_update(req.params.id, req.body, table))

\* router.patch("/:id", ensureAdmin, ...)
PatchJob(req, table) ==
    IF ensureAdmin(req) # <<NoArg>> THEN Stopped(ensureAdmin(req), table)
    ELSE IF ~JobUpdateSchemaValid(req.body)
    THEN Handled(<<>>, Thrown("BadRequestError", "schema", table))
    ELSE Handled(<<"Job.update">>, Job_update(req.params.id, req.body, table))

\* router.delete("/:id", ensureAdmin, ...)
DeleteJob(req, table) ==
    IF ensureAdmin(req) # <<NoArg>> THEN Stopped(ensureAdmin(req), table)
    ELSE Handled(<<"Job.remove">>, Job_remove(req.params.id, table))

(***************************************************************************)
(* models/user.js and routes/users.js                                      *)
(***************************************************************************)
\* the columns of users that an update can set; the password hash is left out
UserColumns == {"firstName"}

\* User.get(username)
User_get(username, table) ==
    LET hit == {row \in table : Str(row.username) = username}
        sent == <<Stmt(<<W("SELECT username FROM users WHERE username = "), P(1)>>,
                       <<username>>)>>
    IN IF hit = {}
       THEN [threw |-> "NotFoundError", stmts |-> sent, table |-> table]
       ELSE [threw |-> "none", ret |-> CHOOSE row \in hit : TRUE, stmts |-> sent,
             table |-> table]

\* User.update(username, data)
User_update(username, data, table) ==
    LET hit == {row \in table : Str(row.username) = username}
        Assign(row) ==
            [col \in DOMAIN row |->
                IF col \in UserColumns /\ data[col] # Undef THEN data[col] ELSE row[col]]
        sent == <<Stmt(<<W("UPDATE users SET ... WHERE username = "), P(1)>>,
                       <<username>>)>>
    IN IF hit = {}
       THEN [threw |-> "NotFoundError", stmts |-> sent, table |-> table]
       ELSE [threw |-> "none", ret |-> Assign(CHOOSE row \in hit : TRUE),
             stmts |-> sent,
             table |-> (table \ hit) \cup {Assign(row) : row \in hit}]

\* User.remove(username)
User_remove(username, table) ==
    LET hit == {row \in table : Str(row.username) = username}
    IN [threw |-> IF hit = {} THEN "NotFoundError" ELSE "none",
        stmts |-> <<Stmt(<<W("DELETE FROM users WHERE username = "), P(1)>>,
                         <<username>>)>>,
        table |-> table \ hit]

\* jsonschema.validate(req.body, userUpdateSchema).valid
UserUpdateSchemaValid(body) ==
    \A col \in DOMAIN body : body[col].t \in {"undefined", "string"}

\* User.register(data)
User_register(data, table) ==
    LET row == [username |-> data.username.s, firstName |-> data.firstName]
        check == Stmt(<<W("SELECT username FROM users WHERE username = "), P(1)>>,
                      <<data.username>>)
        insert == Stmt(<<W("INSERT INTO users ... VALUES ("), P(1), W(", ...)")>>,
                       <<data.username>>)
    IN IF \E old \in table : old.username = row.username
       THEN [threw |-> "BadRequestError", stmts |-> <<check>>, table |-> table]
       ELSE [threw |-> "none", ret |-> row, stmts |-> <<check, insert>>,
             table |-> table \cup {row}]

\* User.findAll()
User_findAll(table) ==
    [threw |-> "none", ret |-> table,
     stmts |-> <<Stmt(<<W("SELECT username FROM users ORDER BY username")>>, <<>>)>>,
     table |-> table]

\* jsonschema.validate(req.body, userNewSchema).valid
UserNewSchemaValid(body) ==
    /\ body.username.t = "string"
    /\ body.firstName.t = "string"
    /\ body.password.t = "string"

\* router.post("/", ensureAdmin, ...)
PostUser(req, table) ==
    IF ensureAdmin(req) # <<NoArg>> THEN Stopped(ensureAdmin(req), table)
    ELSE IF ~UserNewSchemaValid(req.body)
    THEN Handled(<<>>, Thrown("BadRequestError", "schema", table))
    ELSE Handled(<<"User.register">>, User_register(req.body, table))

\* router.get("/", ensureAdmin, ...)
ListUsers(req, table) ==
    IF ensureAdmin(req) # <<NoArg>> THEN Stopped(ensureAdmin(req), table)
    ELSE Handled(<<"User.findAll">>, User_findAll(table))

\* router.get("/:username", ensureUserOrAdmin, ...)
GetUser(req, table) ==
    IF ensureUserOrAdmin(req) # <<NoArg>> THEN Stopped(ensureUserOrAdmin(req), table)
    ELSE Handled(<<"User.get">>, User_get(req.params.username, table))

\* router.patch("/:username", ensureUserOrAdmin, ...)
PatchUser(req, table) ==
    IF ensureUserOrAdmin(req) # <<NoArg>> THEN Stopped(ensureUserOrAdmin(req), table)
    ELSE IF ~UserUpdateSchemaValid(req.body)
    THEN Handled(<<>>, Thrown("BadRequestError", "schema", table))
    ELSE Handled(<<"User.update">>, User_update(req.params.username, req.body, table))

\* router.delete("/:username", ensureUserOrAdmin, ...)
DeleteUser(req, table) ==
    IF ensureUserOrAdmin(req) # <<NoArg>> THEN Stopped(ensureUserOrAdmin(req), table)
    ELSE Handled(<<"User.remove">>, User_remove(req.params.username, table))

(***************************************************************************)
(* A request through the application: authenticateJWT runs first, then the *)
(* route's middleware and handler.                                         *)
(***************************************************************************)
\* the request as the route sees it
Req(headers, params, query, body) ==
    [user |-> authenticateJWT(headers).user, params |-> params,
     query |-> query, body |-> body]

NoBody == [firstName |-> Undef, password |-> Undef]
NoQuery == [k \in QueryKeys |-> Undef]

\* the record of a request and its response
Exchange(op, headers, req, r) ==
    [op |-> op, headers |-> headers, req |-> req,
     authNext |-> authenticateJWT(headers).next] @@ Outcome(r)

\* the response when authenticateJWT passed an error to next
Through(headers, table, r) ==
    IF authenticateJWT(headers).next # <<NoArg>>
    THEN Stopped(authenticateJWT(headers).next, table)
    ELSE r

GetJobsRequest(headers, query) ==
    LET req == Req(headers, [id |-> Undef], query, NoBody)
    IN /\ res' = Exchange("GET /jobs", headers, req, Through(headers, jobs, GetJobs(req, jobs)))
       /\ UNCHANGED <<jobs, nextId, companies, users, creating>>

GetJobRequest(headers, id) ==
    LET req == Req(headers, [id |-> id], NoQuery, NoBody)
    IN /\ res' = Exchange("GET /jobs/:id", headers, req, Through(headers, jobs, GetJob(req, jobs)))
       /\ UNCHANGED <<jobs, nextId, companies, users, creating>>

PostJobRequest(headers, body) ==
    LET req == Req(headers, [id |-> Undef], NoQuery, body)
        r == Through(headers, jobs, PostJob(req, jobs, nextId, companies))
    IN /\ r.table # jobs => nextId <= MaxJobs
       /\ res' = Exchange("POST /jobs", headers, req, r)
       /\ jobs' = r.table
       /\ nextId' = IF r.table # jobs THEN nextId + 1 ELSE nextId
       /\ UNCHANGED <<companies, users, creating>>

PatchJobRequest(headers, id, body) ==
    LET req == Req(headers, [id |-> id], NoQuery, body)
        r == Through(headers, jobs, PatchJob(req, jobs))
    IN /\ res' = Exchange("PATCH /jobs/:id", headers, req, r)
       /\ jobs' = r.table
       /\ UNCHANGED <<nextId, companies, users, creating>>

DeleteJobRequest(headers, id) ==
    LET req == Req(headers, [id |-> id], NoQuery, NoBody)
        r == Through(headers, jobs, DeleteJob(req, jobs))
    IN /\ res' = Exchange("DELETE /jobs/:id", headers, req, r)
       /\ jobs' = r.table
       /\ UNCHANGED <<nextId, companies, users, creating>>

PostUserRequest(headers, body) ==
    LET req == Req(headers, [username |-> Undef], NoQuery, body)
        r == Through(headers, users, PostUser(req, users))
    IN /\ res' = Exchange("POST /users", headers, req, r)
       /\ users' = r.table
       /\ UNCHANGED <<jobs, nextId, companies, creating>>

ListUsersRequest(headers) ==
    LET req == Req(headers, [username |-> Undef], NoQuery, NoBody)
    IN /\ res' = Exchange("GET /users", headers, req,
                          Through(headers, users, ListUsers(req, users)))
       /\ UNCHANGED <<jobs, nextId, companies, users, creating>>

GetUserRequest(headers, username) ==
    LET req == Req(headers, [username |-> username], NoQuery, NoBody)
    IN /\ res' = Exchange("GET /users/:username", headers, req,
                          Through(headers, users, GetUser(req, users)))
       /\ UNCHANGED <<jobs, nextId, companies, users, creating>>

PatchUserRequest(headers, username, body) ==
    LET req == Req(headers, [username |-> username], NoQuery, body)
        r == Through(headers, users, PatchUser(req, users))
    IN /\ res' = Exchange("PATCH /users/:username", headers, req, r)
       /\ users' = r.table
       /\ UNCHANGED <<jobs, nextId, companies, creating>>

DeleteUserRequest(headers, username) ==
    LET req == Req(headers, [username |-> username], NoQuery, NoBody)
        r == Through(headers, users, DeleteUser(req, users))
    IN /\ res' = Exchange("DELETE /users/:username", headers, req, r)
       /\ users' = r.table
       /\ UNCHANGED <<jobs, nextId, companies, creating>>

(***************************************************************************)
(* Inputs of the routes.                                                   *)
(***************************************************************************)
Bearer(token) == [authorization |-> Str("Bearer " \o token)]
NoHeader == [authorization |-> Undef]

\* callers of the public routes: no header, an empty header, an invalid
\* token with and without the Bearer prefix, a valid token
PublicCallers ==
    {NoHeader, [authorization |-> Str("")], Bearer("garbage"),
     [authorization |-> Str("garbage")], Bearer(TokenOf("u1", FALSE))}

\* callers of the admin routes: anonymous, a user, an admin
AdminRouteCallers == {NoHeader, Bearer(TokenOf("u1", FALSE)), Bearer(TokenOf("u1", TRUE))}

\* callers of the user routes: anonymous, every user, an admin
UserRouteCallers ==
    {NoHeader, Bearer(TokenOf("u1", TRUE))}
        \cup {Bearer(TokenOf(u, FALSE)) : u \in Usernames}

Queries ==
    {q \in [title : {Undef, Str("b")},
            minSalary : {Undef, Str("1500"), Str("0"), Str("-5"), Str("onemillion")},
            hasEquity : {Undef, Str("true"), Str("false"), Str("onemillion")},
            color : {Undef, Str("red")}] :
        /\ q.minSalary \in {Str("0"), Str("-5")} => (q.title = Undef /\ q.hasEquity = Undef)
        /\ q.color # Undef => (q.title = Str("b") /\ q.minSalary = Undef /\ q.hasEquity = Undef)}

PostBodies ==
    {[title |-> Str("a"), salary |-> Num(1000), equity |-> Num(1), companyHandle |-> "c1"],
     [title |-> Str("B"), salary |-> Num(2000), equity |-> Num(0), companyHandle |-> "c1"],
     [title |-> Str("B"), salary |-> Num(3000), equity |-> Null, companyHandle |-> "c1"]}

PatchBodies == {<<<<"equity", Null>>>>}

UserBodies ==
    {[firstName |-> Str("N"), password |-> Undef],
     [firstName |-> Str("N"), password |-> Str("pw")]}

UserPaths == {Str(u) : u \in Usernames}

\* the job routes, as the tests of routes/jobs.js call them
SeedJob == \E body \in PostBodies : PostJobRequest(Bearer(TokenOf("u1", TRUE)), body)
GetJobsAny == \E headers \in PublicCallers, query \in Queries : GetJobsRequest(headers, query)
GetJobAny == \E headers \in PublicCallers, id \in JobIds : GetJobRequest(headers, id)

\* the mutating routes
PostJobs ==
    \E headers \in AdminRouteCallers :
        PostJobRequest(headers, CHOOSE body \in PostBodies : body.equity = Num(1))
PatchJobs ==
    \E headers \in AdminRouteCallers, id \in JobIds, body \in PatchBodies :
        PatchJobRequest(headers, id, body)
DeleteJobs == \E headers \in AdminRouteCallers, id \in JobIds : DeleteJobRequest(headers, id)
PatchUsers ==
    \E headers \in UserRouteCallers, username \in UserPaths, body \in UserBodies :
        PatchUserRequest(headers, username, body)
DeleteUsers ==
    \E headers \in UserRouteCallers, username \in UserPaths :
        DeleteUserRequest(headers, username)

\* a new user, and one whose username is taken
NewUsers ==
    {[username |-> Str(u), firstName |-> Str("N"), password |-> Str("pw")] :
        u \in {"u-new", "u1"}}

PostUsers == \E headers \in UserRouteCallers, body \in NewUsers : PostUserRequest(headers, body)
GetUsersAll == \E headers \in UserRouteCallers : ListUsersRequest(headers)
GetUsers ==
    \E headers \in UserRouteCallers, username \in UserPaths :
        GetUserRequest(headers, username)

(***************************************************************************)
(* models/company.js: create.  The method awaits two statements; calls in  *)
(* flight interleave at the awaits.                                        *)
(***************************************************************************)
Calls == 1..NumCalls

\* handles passed to Company.create: one that Init holds, two that it lacks
CreateHandles == {"c1", "new", "net"}

NotCalled == [pc |-> "idle"]

\* INSERT INTO companies ...: handle is the primary key of companies
DbInsertCompany(handle, handles) ==
    IF handle \in handles
    THEN [threw |-> "DatabaseError", handles |-> handles]
    ELSE [threw |-> "none", handles |-> handles \cup {handle}]

\* Company.create up to its first await resolved: the duplicate check
Company_create_check(data, handles) ==
    LET check == Stmt(<<W("SELECT handle FROM companies WHERE handle = "), P(1)>>,
                      <<data.handle>>)
    IN IF data.handle \in handles
       THEN [pc |-> "done", data |-> data, threw |-> "BadRequestError",
             message |-> "Duplicate company: " \o data.handle, stmts |-> <<check>>]
       ELSE [pc |-> "checked", data |-> data, stmts |-> <<check>>]

\* Company.create from the duplicate check to its return: the INSERT
Company_create_insert(call, handles) ==
    LET insert == Stmt(<<W("INSERT INTO companies(handle, name, description, num_employees, logo_url) VALUES ("),
                         P(1), W(", "), P(2), W(", "), P(3), W(", "), P(4), W(", "), P(5), W(")")>>,
                       <<call.data.handle, call.data.name, call.data.description,
                         call.data.numEmployees, call.data.logoUrl>>)
        q == DbInsertCompany(call.data.handle, handles)
    IN [pc |-> "done", data |-> call.data, threw |-> q.threw,
        stmts |-> Append(call.stmts, insert)]

CompanyCreateCheck(c, data) ==
    /\ creating[c].pc = "idle"
    /\ creating' = [creating EXCEPT ![c] = Company_create_check(data, companies)]
    /\ res' = [op |-> "Company.create", call |-> c, step |-> "check"]
    /\ UNCHANGED <<jobs, nextId, companies, users>>

CompanyCreateInsert(c) ==
    /\ creating[c].pc = "checked"
    /\ creating' = [creating EXCEPT ![c] = Company_create_insert(creating[c], companies)]
    /\ companies' = DbInsertCompany(creating[c].data.handle, companies).handles
    /\ res' = [op |-> "Company.create", call |-> c, step |-> "insert"]
    /\ UNCHANGED <<jobs, nextId, users>>

NewCompanies ==
    {[handle |-> handle, name |-> Str(handle), description |-> Str("d"),
      numEmployees |-> Num(1), logoUrl |-> Null] : handle \in CreateHandles}

CreateCheck == \E c \in Calls, data \in NewCompanies : CompanyCreateCheck(c, data)
CreateInsert == \E c \in Calls : CompanyCreateInsert(c)

Init ==
    /\ res = [op |-> "init"]
    /\ jobs = {}
    /\ nextId = 1
    /\ companies = {"c1"}
    /\ users = {[username |-> u, firstName |-> Str("F")] : u \in Usernames}
    /\ creating = [c \in Calls |-> NotCalled]

Next == Create \/ FindAll \/ FilterSearch \/ Get \/ Update \/ Remove

Spec == Init /\ [][Next]_vars

\* authenticateJWT on its own, for every kind of Authorization header
AuthenticateJWT ==
    \E headers \in PublicCallers \cup UserRouteCallers :
        /\ res' = [op |-> "authenticateJWT", headers |-> headers,
                   user |-> authenticateJWT(headers).user,
                   next |-> authenticateJWT(headers).next]
        /\ UNCHANGED <<jobs, nextId, companies, users, creating>>

NextAuth == EnsureLoggedIn \/ EnsureAdmin \/ EnsureUserOrAdmin \/ AuthenticateJWT

SpecAuth == Init /\ [][NextAuth]_vars

\* Company.update on a known and an unknown handle
UpdateCompany ==
    \E handle \in {Str("c1"), Str("nope")}, data \in UpdateMaps :
        /\ handle = Str("nope") => Len(data) <= 1
        /\ CompanyUpdate(handle, data)

NextSql == SqlForPartialUpdate \/ JobWhere \/ CompanyWhere \/ Update \/ UpdateCompany

SpecSql == Init /\ [][NextSql]_vars

NextCreate == CreateCheck \/ CreateInsert

SpecCreate == Init /\ [][NextCreate]_vars

NextUsers == PostUsers \/ GetUsersAll \/ GetUsers \/ PatchUsers \/ DeleteUsers

SpecUsers == Init /\ [][NextUsers]_vars

NextJobRoutes == SeedJob \/ GetJobsAny \/ GetJobAny \/ FilterSearch

SpecJobRoutes == Init /\ [][NextJobRoutes]_vars

NextMutate == PostJobs \/ PatchJobs \/ DeleteJobs \/ PatchUsers \/ DeleteUsers

SpecMutate == Init /\ [][NextMutate]_vars

(***************************************************************************)
(* Claims about the authorization middleware.                              *)
(***************************************************************************)
IsAuthOp == res.op \in {"ensureLoggedIn", "ensureAdmin", "ensureUserOrAdmin"}
Allowed == res.next = <<NoArg>>
Denied == Len(res.next) = 1 /\ res.next[1] # NoArg
IdentityPresent == res.req.user # Undef
SelfPath == IdentityPresent /\ res.req.user.username = res.req.params.username

\* C1: ensureUserOrAdmin, whenever the body carries a password field
\* (whatever its value), allows iff an identity is present and its username
\* equals the :username path parameter; an admin on another path is denied.
C1_PasswordSelfOnly ==
    (res.op = "ensureUserOrAdmin" /\ res.req.body.password # Undef)
        => (Allowed <=> SelfPath)

\* C2: ensureAdmin allows iff an identity is present and its isAdmin is
\* exactly the boolean true (1 and "true" are denied), and it never throws:
\* it calls next.
C2_AdminExactlyTrue ==
    res.op = "ensureAdmin"
        => /\ Allowed <=> (IdentityPresent /\ res.req.user.isAdmin = Bool(TRUE))
           /\ Len(res.next) = 1

\* C3: whenever ensureLoggedIn, ensureAdmin or ensureUserOrAdmin denies, the
\* error handed to next is an UnauthorizedError and never another kind.
C3_DenyIsUnauthorized ==
    (IsAuthOp /\ ~Allowed) => res.next = <<"UnauthorizedError">>

\* C4: ensureUserOrAdmin, when the body carries no password, allows iff an
\* identity is present and (its username equals the path parameter or its
\* isAdmin is true); otherwise it denies.
C4_SelfOrAdmin ==
    (res.op = "ensureUserOrAdmin" /\ res.req.body.password = Undef)
        => /\ Allowed <=> (IdentityPresent
                            /\ (SelfPath \/ res.req.user.isAdmin = Bool(TRUE)))
           /\ ~Allowed => Denied

\* an admin was allowed on another user's path, no password in the body
C4_Witness ==
    /\ res.op = "ensureUserOrAdmin"
    /\ res.req.body.password = Undef
    /\ IdentityPresent
    /\ ~SelfPath
    /\ res.req.user.isAdmin = Bool(TRUE)
    /\ Allowed

(***************************************************************************)
(* Claims about the fragment builders.                                     *)
(***************************************************************************)
\* C5: for every non-empty update map with N fields, sqlForPartialUpdate
\* returns exactly N comma-joined clauses and exactly N values; the i-th
\* clause carries placeholder $i and values[i] is the value of the i-th key,
\* so the placeholders of the fragment are $1..$N, each exactly once.
C5_ClausesAndValues ==
    (res.op = "sqlForPartialUpdate" /\ Len(res.data) > 0)
        => LET N == Len(res.data)
               clauses == Split(res.out.setCols, ", ")
           IN /\ res.out.threw = "none"
              /\ Len(clauses) = N
              /\ Len(res.out.values) = N
              /\ \A i \in 1..N :
                    /\ Placeholders(clauses[i]) = <<i>>
                    /\ res.out.values[i] = res.data[i][2]
              /\ Placeholders(res.out.setCols) = [i \in 1..N |-> i]

\* a map of at least two fields was rendered
C5_Witness ==
    /\ res.op = "sqlForPartialUpdate"
    /\ Len(res.data) >= 2
    /\ res.out.threw = "none"
    /\ Len(res.out.values) = Len(res.data)

\* C6: Job.update(id, {}) for any id, existing or not, raises
\* BadRequestError("No data") out of sqlForPartialUpdate, sends no statement
\* to the store and leaves the jobs table unchanged.
C6_EmptyUpdateRejected ==
    [][(res'.op = "Job.update" /\ res'.data = <<>>)
          => /\ res'.threw = "BadRequestError"
             /\ res'.message = "No data"
             /\ res'.stmts = <<>>
             /\ jobs' = jobs]_vars

\* Job.update with an empty map ran on the id of a job that is in the table
C6_Witness ==
    /\ res.op = "Job.update"
    /\ res.data = <<>>
    /\ \E row \in jobs : row.id = res.id
    /\ res.threw = "BadRequestError"

\* C7: for every filter map (the empty map and all-falsy maps included) both
\* Job._makeWhereClause and Company._makeWhereClause return a non-empty
\* whereClause.
C7_WhereNeverEmpty ==
    (res.op \in {"Job._makeWhereClause", "Company._makeWhereClause"}
     /\ res.out.threw = "none")
        => Text(res.out.whereClause) # ""

\* C8: Company._makeWhereClause raises BadRequestError for every filter map
\* in which minEmployees and maxEmployees are both present (0 included) and
\* minEmployees > maxEmployees.
C8_InvertedRangeRejected ==
    (/\ res.op = "Company._makeWhereClause"
     /\ res.terms.minEmployees.t = "number"
     /\ res.terms.maxEmployees.t = "number"
     /\ res.terms.minEmployees.n > res.terms.maxEmployees.n)
        => res.out.threw = "BadRequestError"

\* C9: Job._makeWhereClause with hasEquity false or absent and another filter
\* present returns only the clauses of the present filters (`title ILIKE $1`
\* with values ["%<title>%"] for a title alone), with no extra clause.
C9_NoExtraClause ==
    (/\ res.op = "Job._makeWhereClause"
     /\ res.terms.hasEquity \in {Undef, Bool(FALSE)}
     /\ (Truthy(res.terms.title) \/ Truthy(res.terms.minSalary)))
        => /\ Text(res.out.whereClause) =
                (IF Truthy(res.terms.title) /\ Truthy(res.terms.minSalary)
                 THEN "title ILIKE $1 AND salary >= $2"
                 ELSE IF Truthy(res.terms.title) THEN "title ILIKE $1"
                 ELSE "salary >= $1")
           /\ res.out.values =
                (IF Truthy(res.terms.title) THEN <<Wrap(res.terms.title)>> ELSE <<>>)
                \o (IF Truthy(res.terms.minSalary) THEN <<res.terms.minSalary>> ELSE <<>>)

\* C10: with hasEquity = true (the boolean), title and minSalary,
\* Job._makeWhereClause returns `title ILIKE $1 AND salary >= $2 AND
\* CAST(equity AS FLOAT) > 0` with values ["%<title>%", minSalary], and
\* Job.filterSearch with hasEquity true returns only jobs whose equity is
\* greater than 0.
C10_TrueRestrictsEquity ==
    (res.op = "Job.filterSearch" /\ res.terms.hasEquity = Bool(TRUE))
        => /\ (Truthy(res.terms.title) /\ Truthy(res.terms.minSalary))
                => /\ Text(res.where.whereClause) =
                        "title ILIKE $1 AND salary >= $2 AND CAST(equity AS FLOAT) > 0"
                   /\ res.where.values = <<Wrap(res.terms.title), res.terms.minSalary>>
           /\ \A i \in 1..Len(res.ret) :
                 \E row \in jobs :
                    /\ row.id = res.ret[i].id
                    /\ row.equity.t = "number"
                    /\ row.equity.n > 0

\* C11: in Job._makeWhereClause the string hasEquity "true" adds one equity
\* comparison clause that binds no value and allocates no placeholder: for
\* every filter map the number of $n placeholders in whereClause equals
\* values.length, and {minSalary, hasEquity: "true"} yields two clauses with
\* the single bound value $1 = minSalary.
C11_EquityClauseUnbound ==
    res.op = "Job._makeWhereClause"
        => LET clauses == Split(res.out.whereClause, " AND ")
               bound == (IF Truthy(res.terms.title) THEN 1 ELSE 0)
                        + (IF Truthy(res.terms.minSalary) THEN 1 ELSE 0)
           IN /\ Len(Placeholders(res.out.whereClause)) = Len(res.out.values)
              /\ res.terms.hasEquity = Str("true")
                    => /\ Len(clauses) = bound + 1
                       /\ clauses[Len(clauses)] = <<W("equity > 0.0")>>
                       /\ Len(res.out.values) = bound
              /\ (/\ res.terms.hasEquity = Str("true")
                  /\ Truthy(res.terms.minSalary)
                  /\ ~Truthy(res.terms.title))
                    => /\ Len(clauses) = 2
                       /\ Placeholders(res.out.whereClause) = <<1>>
                       /\ res.out.values = <<res.terms.minSalary>>

\* {minSalary, hasEquity: "true"} was rendered
C11_Witness ==
    /\ res.op = "Job._makeWhereClause"
    /\ res.terms.hasEquity = Str("true")
    /\ Truthy(res.terms.minSalary)
    /\ ~Truthy(res.terms.title)
    /\ Text(res.out.whereClause) = "salary >= $1 AND equity > 0.0"

IsSqlUpdateOk == res.op = "sqlForPartialUpdate" /\ res.out.threw = "none"
TableColumns(jsToSql) == {jsToSql[key] : key \in DOMAIN jsToSql}

\* the request of the last exchange, with hasEquity taken out of its query
WithoutHasEquity == [res.req EXCEPT !.query.hasEquity = Undef]

\* C12: a hasEquity of "false", or no hasEquity, never restricts the result:
\* Job.filterSearch with hasEquity "false" returns the rows of the same search
\* without hasEquity, and GET /jobs?hasEquity=false returns the jobs of
\* GET /jobs, those with equity 0 or null included.
C12_FalseNeverRestricts ==
    /\ (res.op = "Job.filterSearch" /\ res.terms.hasEquity \in {Undef, Str("false")})
          => /\ res.threw = "none"
             /\ res.ret = Job_filterSearch([res.terms EXCEPT !.hasEquity = Undef], jobs).ret
             /\ (~Truthy(res.terms.title) /\ ~Truthy(res.terms.minSalary))
                   => Len(res.ret) = Cardinality(jobs)
    /\ (res.op = "GET /jobs" /\ res.req.query.hasEquity = Str("false"))
          => /\ res.threw = GetJobs(WithoutHasEquity, jobs).threw
             /\ res.threw = "none" => res.ret = GetJobs(WithoutHasEquity, jobs).ret
             /\ WithoutHasEquity.query = NoQuery
                   => /\ res.ret = Job_findAll(jobs).ret
                      /\ Len(res.ret) = Cardinality(jobs)

\* GET /jobs?hasEquity=false answered with every job of a table that holds a
\* job with equity 0 and a job with equity null
C12_Witness ==
    /\ res.op = "GET /jobs"
    /\ res.req.query = [NoQuery EXCEPT !.hasEquity = Str("false")]
    /\ \E row \in jobs : row.equity = Num(0)
    /\ \E row \in jobs : row.equity = Null
    /\ Len(res.ret) = Cardinality(jobs)

\* C13: GET /jobs with a hasEquity query value other than "true" or "false"
\* is rejected with a BadRequestError whose message is "hasEquity must be a
\* boolean", and Job.filterSearch is not called.
C13_InvalidHasEquityRejected ==
    (/\ res.op = "GET /jobs"
     /\ Truthy(res.req.query.hasEquity)
     /\ res.req.query.hasEquity \notin {Str("true"), Str("false")}
     /\ res.req.query.minSalary \in {Undef, Str("1500")}
     /\ res.req.query.color = Undef)
        => /\ res.threw = "BadRequestError"
           /\ res.message = "hasEquity must be a boolean"
           /\ res.calls = <<>>

\* the Authorization header of the last exchange holds no valid token
NoValidToken ==
    \A k \in ValidTokens :
        res.headers.authorization \notin {Str("Bearer " \o k), Str("bearer " \o k), Str(k)}

\* C14: a request with no Authorization header, or with a malformed or
\* invalid token, has no identity (res.locals.user stays unset),
\* authenticateJWT calls next with no error, and the request reaches the
\* handler of GET /jobs or GET /jobs/:id.
C14_InvalidTokenIsAnonymous ==
    (res.op \in {"GET /jobs", "GET /jobs/:id"} /\ NoValidToken)
        => /\ res.req.user = Undef
           /\ res.authNext = <<NoArg>>
           /\ res.ran

\* GET /jobs/:id with an invalid bearer token answered with the job
C14_Witness ==
    /\ res.op = "GET /jobs/:id"
    /\ res.headers = Bearer("garbage")
    /\ res.threw = "none"
    /\ res.ret.id = res.req.params.id

JobMutations == {"POST /jobs", "PATCH /jobs/:id", "DELETE /jobs/:id"}
UserMutations == {"PATCH /users/:username", "DELETE /users/:username"}

\* the middleware of the route of exchange x passes an error to next
MiddlewareDenies(x) ==
    IF x.op \in JobMutations THEN ensureAdmin(x.req) # <<NoArg>>
    ELSE ensureUserOrAdmin(x.req) # <<NoArg>>

\* the callers the routes deny: on the job routes an anonymous or non-admin
\* caller, on the user routes an anonymous caller or another non-admin user
DeniedCaller(x) ==
    \/ x.req.user = Undef
    \/ /\ x.req.user.isAdmin # Bool(TRUE)
       /\ (x.op \in JobMutations \/ x.req.user.username # x.req.params.username)

\* C15: whenever the authorization middleware of a mutating route denies
\* (POST, PATCH, DELETE /jobs for a non-admin or anonymous caller; PATCH,
\* DELETE /users/:username for another non-admin user or an anonymous
\* caller), the handler does not run, no statement is sent, and the jobs and
\* users tables after the request equal the tables before it.
C15_DeniedLeavesTables ==
    [][/\ (res'.op \in JobMutations \cup UserMutations /\ MiddlewareDenies(res'))
            => /\ ~res'.ran
               /\ res'.calls = <<>>
               /\ res'.stmts = <<>>
               /\ jobs' = jobs
               /\ users' = users
               /\ nextId' = nextId
       /\ (res'.op \in JobMutations \cup UserMutations /\ DeniedCaller(res'))
            => MiddlewareDenies(res')]_vars

\* PATCH /jobs/:id by a non-admin user on a job the patch would change,
\* denied
C15_Witness ==
    /\ res.op = "PATCH /jobs/:id"
    /\ res.req.user # Undef
    /\ res.req.user.isAdmin = Bool(FALSE)
    /\ ~res.ran
    /\ \E row \in jobs : row.id = res.req.params.id /\ row.equity # Null

\* C16: the decision of ensureUserOrAdmin is a function of the identity, the
\* path username and the presence of a password field only: two requests
\* equal in these three get the same decision.
C16_DecisionByPresence ==
    res.op = "ensureUserOrAdmin"
        => \A r2 \in Requests :
              (/\ r2.user = res.req.user
               /\ r2.params = res.req.params
               /\ (r2.body.password = Undef) <=> (res.req.body.password = Undef))
                  => ensureUserOrAdmin(r2) = res.next

\* C17: in sqlForPartialUpdate the fragment text never depends on field
\* values: every update map with the same keys in the same order produces
\* the identical setCols string, whatever its values, and the values are
\* returned in the values list.
C17_TextIndependentOfValues ==
    IsSqlUpdateOk
        => /\ \A other \in UpdateMaps :
                 ObjectKeys(other) = ObjectKeys(res.data)
                    => Text(sqlForPartialUpdate(other, res.jsToSql).setCols)
                          = Text(res.out.setCols)
           /\ res.out.values = ObjectValues(res.data)

\* a map of two fields was rendered, and a map with the same keys and other
\* values exists
C17_Witness ==
    /\ IsSqlUpdateOk
    /\ Len(res.data) >= 2
    /\ \E other \in UpdateMaps :
          /\ ObjectKeys(other) = ObjectKeys(res.data)
          /\ \A i \in 1..Len(other) : other[i][2] # res.data[i][2]

\* C18 (as stated): the only text interpolated into the SET fragment is
\* double-quoted column identifiers that come from the translation table; no
\* text taken from the update map, its keys included, appears in it.
C18_OnlyTableIdentifiers ==
    IsSqlUpdateOk
        => \A i \in 1..Len(res.out.setCols) :
              LET tok == res.out.setCols[i]
              IN \/ tok.k = "param"
                 \/ tok \in {W("="), W(", ")}
                 \/ tok.k = "ident" /\ tok.name \in TableColumns(res.jsToSql)

\* C18 (amended): the only text interpolated into the SET fragment is
\* double-quoted identifiers, each the translation table's column name or,
\* for a key the table does not map, a key of the update map; no field value
\* appears in the fragment.
C18_OnlyQuotedIdentifiers ==
    IsSqlUpdateOk
        => \A i \in 1..Len(res.out.setCols) :
              LET tok == res.out.setCols[i]
              IN \/ tok.k = "param"
                 \/ tok \in {W("="), W(", ")}
                 \/ /\ tok.k = "ident"
                    /\ \/ tok.name \in TableColumns(res.jsToSql)
                       \/ \E j \in 1..Len(res.data) :
                             /\ tok.name = res.data[j][1]
                             /\ res.data[j][1] \notin DOMAIN res.jsToSql

\* a key the table does not map was rendered next to one it maps
C18_Witness ==
    /\ IsSqlUpdateOk
    /\ \E j \in 1..Len(res.data) : res.data[j][1] \notin DOMAIN res.jsToSql
    /\ \E j \in 1..Len(res.data) : res.data[j][1] \in DOMAIN res.jsToSql

\* C19: in sqlForPartialUpdate a field that has an entry in the translation
\* table is emitted under the table's column name, and a field with no entry
\* under its logical name verbatim (numEmployees -> "num_employees").
C19_TranslationFallback ==
    IsSqlUpdateOk
        => LET clauses == Split(res.out.setCols, ", ")
           IN /\ Len(clauses) = Len(res.data)
              /\ \A i \in 1..Len(res.data) :
                    LET key == res.data[i][1]
                    IN clauses[i][1] =
                          Q(IF key \in DOMAIN res.jsToSql
                            THEN res.jsToSql[key] ELSE key)

\* {numEmployees, title} was rendered with the Company table
C19_Witness ==
    /\ IsSqlUpdateOk
    /\ res.jsToSql = CompanyJsToSql
    /\ ObjectKeys(res.data) = <<"numEmployees", "title">>
    /\ Text(res.out.setCols) = "\"num_employees\"=$1, \"title\"=$2"

(***************************************************************************)
(* Claims about the Job model.                                             *)
(***************************************************************************)
\* the row with the given entries written over it, field by field
Patched(row, data) ==
    [col \in JobColumns |->
        IF \E i \in 1..Len(data) : data[i][1] = col
        THEN data[CHOOSE i \in 1..Len(data) : data[i][1] = col][2]
        ELSE row[col]]

\* C20: Job.update(id, data) with a non-empty data over {title, salary,
\* equity} on an existing job changes exactly the supplied fields to the
\* supplied values (null included), leaves the job's other fields, its id and
\* companyHandle and every other job unchanged and returns the updated job,
\* which a following Job.get(id) returns too; on a non-existent id it raises
\* NotFoundError and changes nothing.
C20_UpdateChangesExactlySupplied ==
    [][/\ (res'.op = "Job.update" /\ res'.data # <<>>)
            => LET hit == {row \in jobs : row.id = res'.id}
                   old == CHOOSE row \in hit : TRUE
               IN IF hit = {}
                  THEN res'.threw = "NotFoundError" /\ jobs' = jobs
                  ELSE /\ res'.threw = "none"
                       /\ jobs' = (jobs \ {old}) \cup {Patched(old, res'.data)}
                       /\ Patched(old, res'.data).id = old.id
                       /\ Patched(old, res'.data).company_handle = old.company_handle
                       /\ res'.ret = RowOut(Patched(old, res'.data))
       /\ res'.op = "Job.get"
            => IF \E row \in jobs' : row.id = res'.id
               THEN /\ res'.threw = "none"
                    /\ \E row \in jobs' : row.id = res'.id /\ res'.ret = RowOut(row)
               ELSE res'.threw = "NotFoundError"]_vars

\* a job was updated with a null field while another job was in the table
C20_Witness ==
    /\ res.op = "Job.update"
    /\ res.threw = "none"
    /\ \E i \in 1..Len(res.data) : res.data[i][2] = Null
    /\ \E row \in jobs : row.id = res.id /\ row.equity = Null
    /\ \E row \in jobs : row.id # res.id

\* id was given to a job that is no longer in the table
Removed(id) == id < nextId /\ \A row \in jobs : row.id # id

\* C21: once Job.remove(id) has succeeded, id never reappears in jobs, and
\* every later Job.get(id), Job.update(id, non-empty data) and Job.remove(id)
\* raises NotFoundError; Job.remove of an id that is not in the table raises
\* NotFoundError and removes nothing, and of an id that is in it removes
\* that row only.
C21_RemovedStaysGone ==
    [][/\ \A id \in JobIds : Removed(id) => \A row \in jobs' : row.id # id
       /\ (/\ \/ res'.op \in {"Job.get", "Job.remove"}
              \/ (res'.op = "Job.update" /\ res'.data # <<>>)
           /\ \A row \in jobs : row.id # res'.id)
            => (res'.threw = "NotFoundError" /\ jobs' = jobs)
       /\ (res'.op = "Job.remove" /\ \E row \in jobs : row.id = res'.id)
            => /\ res'.threw = "none"
               /\ jobs' = {row \in jobs : row.id # res'.id}]_vars

\* Job.update with a non-empty map on the id of a removed job, another job
\* being in the table
C21_Witness ==
    /\ res.op = "Job.update"
    /\ res.data # <<>>
    /\ Removed(res.id)
    /\ res.threw = "NotFoundError"
    /\ jobs # {}

\* C23: Job.create with a companyHandle that is not in companies raises
\* BadRequestError and adds no row; with a handle that is in companies it
\* adds exactly one row, under an id no job has had, carrying the given
\* title, salary, equity and companyHandle, and returns that row.
C23_CreateChecksHandle ==
    [][res'.op = "Job.create"
         => IF res'.data.companyHandle \notin companies
            THEN res'.threw = "BadRequestError" /\ jobs' = jobs /\ nextId' = nextId
            ELSE /\ res'.threw = "none"
                 /\ \E row \in jobs' :
                       /\ row \notin jobs
                       /\ jobs' = jobs \cup {row}
                       /\ row.id = nextId
                       /\ \A old \in jobs : old.id < row.id
                       /\ row.title = res'.data.title
                       /\ row.salary = res'.data.salary
                       /\ row.equity = res'.data.equity
                       /\ row.company_handle = res'.data.companyHandle
                       /\ res'.ret = RowOut(row)]_vars

\* a second job was created next to an earlier one
C23_Witness ==
    /\ res.op = "Job.create"
    /\ res.threw = "none"
    /\ \E row \in jobs : row.id = res.ret.id /\ row.company_handle \in companies
    /\ \E row \in jobs : row.id < res.ret.id

\* C24: GET /jobs with a non-empty minSalary that is not a number greater
\* than 0 (non-numeric text, "0", a negative number) is rejected with the
\* BadRequestError "minSalary must be a number" before any search, and every
\* number bound by a search that GET /jobs starts is positive.
C24_MinSalaryPositive ==
    res.op = "GET /jobs"
        => /\ (/\ Truthy(res.req.query.minSalary)
               /\ res.req.query.color = Undef
               /\ res.req.query.minSalary \notin
                      {Str(ToString(n)) : n \in {k \in Numerals : k > 0}})
                 => /\ res.threw = "BadRequestError"
                    /\ res.message = "minSalary must be a number"
                    /\ res.calls = <<>>
                    /\ res.stmts = <<>>
           /\ res.calls = <<"Job.filterSearch">>
                 => /\ \A i \in 1..Len(res.where.values) :
                          res.where.values[i].t = "number" => res.where.values[i].n > 0
                    /\ Truthy(res.req.query.minSalary)
                          => \E i \in 1..Len(res.where.values) :
                                /\ res.where.values[i].t = "number"
                                /\ res.req.query.minSalary = Str(ToString(res.where.values[i].n))

\* GET /jobs?minSalary=-5 rejected
C24_Witness ==
    /\ res.op = "GET /jobs"
    /\ res.req.query.minSalary = Str("-5")
    /\ res.threw = "BadRequestError"
    /\ res.message = "minSalary must be a number"

\* C26: ensureLoggedIn calls next with no error iff an identity is present
\* on res.locals.user, and otherwise passes an UnauthorizedError to next.
C26_LoggedInIffIdentity ==
    res.op = "ensureLoggedIn"
        => /\ Allowed <=> IdentityPresent
           /\ ~Allowed => res.next = <<"UnauthorizedError">>

\* ensureLoggedIn denied a request with no identity
C26_Witness ==
    /\ res.op = "ensureLoggedIn"
    /\ ~IdentityPresent
    /\ res.next = <<"UnauthorizedError">>

\* C28: ensureAdmin and ensureUserOrAdmin agree on who is an admin: for every
\* identity and isAdmin value, ensureAdmin allows iff ensureUserOrAdmin allows
\* that identity on another user's path with no password in the body.
C28_AdminAgreement ==
    res.op = "ensureAdmin"
        => \A other \in Usernames :
              (~IdentityPresent \/ res.req.user.username # Str(other))
                 => (Allowed <=>
                       ensureUserOrAdmin([user |-> res.req.user,
                                          params |-> [username |-> Str(other)],
                                          body |-> [password |-> Undef]]) = <<NoArg>>)

\* C29: every invocation of authenticateJWT, ensureLoggedIn, ensureAdmin and
\* ensureUserOrAdmin calls next exactly once, with no argument or with one
\* error; authenticateJWT never passes an error.
C29_NextExactlyOnce ==
    (IsAuthOp \/ res.op = "authenticateJWT")
        => /\ Len(res.next) = 1
           /\ res.next[1] \in {NoArg, "UnauthorizedError", "TypeError"}
           /\ res.op = "authenticateJWT" => res.next = <<NoArg>>

\* ensureUserOrAdmin threw inside its try block and passed the error on
C29_Witness ==
    /\ res.op = "ensureUserOrAdmin"
    /\ ~IdentityPresent
    /\ res.next = <<"TypeError">>

\* the rule a clause comes from: 1 the title or name rule, 2 the minimum
\* rule, 3 the equity or maximum rule
RuleOf(clause) ==
    CASE clause[1] \in {W("title ILIKE "), W("name ILIKE ")} -> 1
      [] clause[1] \in {W("salary >= "), W("num_employees >= ")} -> 2
      [] clause[1] \in {W("equity > 0.0"), W("1=1"), W("num_employees <= ")} -> 3
      [] OTHER -> 0

\* the value rule n binds for the terms of the last call
BoundBy(n) ==
    IF res.op = "Job._makeWhereClause"
    THEN (IF n = 1 THEN Wrap(res.terms.title) ELSE res.terms.minSalary)
    ELSE (IF n = 1 THEN Wrap(res.terms.name)
          ELSE IF n = 2 THEN res.terms.minEmployees ELSE res.terms.maxEmployees)

\* the objects with the entries of obj in another order
Reordered(obj) ==
    {o \in JobSearchObjects \cup CompanySearchObjects :
        {o[i] : i \in 1..Len(o)} = {obj[i] : i \in 1..Len(obj)}}

\* C27: both WHERE builders emit their clauses in the order of their rules
\* (jobs: title, minSalary, equity; companies: name, minEmployees,
\* maxEmployees) whatever the key order of the input object, joined by
\* " AND "; the clauses that bind a value carry $1, $2, ... consecutively in
\* that order, and values[k] is the value bound to $k, the title or name
\* wrapped as %value%.
C27_RuleOrder ==
    (/\ res.op \in {"Job._makeWhereClause", "Company._makeWhereClause"}
     /\ res.out.threw = "none")
        => LET clauses == IF res.out.whereClause = <<>> THEN <<>>
                          ELSE Split(res.out.whereClause, " AND ")
               names == DOMAIN res.terms
           IN /\ \A i \in 1..Len(clauses) : RuleOf(clauses[i]) \in 1..3
              /\ \A i, j \in 1..Len(clauses) :
                    i < j => RuleOf(clauses[i]) < RuleOf(clauses[j])
              /\ Placeholders(res.out.whereClause)
                    = [k \in 1..Len(res.out.values) |-> k]
              /\ \A i \in 1..Len(clauses) :
                    \A k \in 1..Len(res.out.values) :
                        P(k) \in {clauses[i][h] : h \in 1..Len(clauses[i])}
                            => res.out.values[k] = BoundBy(RuleOf(clauses[i]))
              /\ \A o \in Reordered(res.obj) :
                    /\ Destructure(o, names) = res.terms
                    /\ (IF res.op = "Job._makeWhereClause"
                        THEN JobMakeWhereClause(Destructure(o, names))
                        ELSE CompanyMakeWhereClause(Destructure(o, names))) = res.out

\* Company._makeWhereClause on {maxEmployees, name}, keys in that order:
\* the name clause comes first with $1, the maximum second with $2
C27_Witness ==
    /\ res.op = "Company._makeWhereClause"
    /\ Len(res.obj) = 2
    /\ res.obj[1][1] = "maxEmployees"
    /\ res.obj[2][1] = "name"
    /\ res.out.threw = "none"
    /\ Text(res.out.whereClause) = "name ILIKE $1 AND num_employees <= $2"
    /\ res.out.values = <<Wrap(res.terms.name), res.terms.maxEmployees>>

\* C30: in Job.update and Company.update with an N-field update map the row
\* key (id, handle) is bound to placeholder $(N+1) and is the last of the N+1
\* bound values: the placeholders of the statement are $1..$(N+1) in this
\* order, each once, the i-th value is the value of the i-th field and the
\* WHERE placeholder is none of the SET placeholders.
C30_KeyIsLastParam ==
    (res.op \in {"Job.update", "Company.update"} /\ res.data # <<>>)
        => LET N == Len(res.data)
               st == res.stmts[1]
               key == IF res.op = "Job.update" THEN res.id ELSE res.handle
               where == IF res.op = "Job.update" THEN W(" WHERE id=")
                        ELSE W(" WHERE handle = ")
               at == CHOOSE i \in 1..Len(st.sql) : st.sql[i] = where
           IN /\ Len(res.stmts) = 1
              /\ Len(st.values) = N + 1
              /\ st.values[N + 1] = key
              /\ \A i \in 1..N : st.values[i] = res.data[i][2]
              /\ Placeholders(st.sql) = [k \in 1..(N + 1) |-> k]
              /\ \E i \in 1..Len(st.sql) : st.sql[i] = where
              /\ st.sql[at + 1] = P(N + 1)
              /\ Placeholders(SubSeq(st.sql, 1, at)) = [k \in 1..N |-> k]

\* Company.update with a three-field map: the handle is bound to $4
C30_Witness ==
    /\ res.op = "Company.update"
    /\ Len(res.data) = 3
    /\ Len(res.stmts) = 1
    /\ Placeholders(res.stmts[1].sql) = <<1, 2, 3, 4>>
    /\ res.stmts[1].values[4] = res.handle

\* C22: Company.create for a handle that is in the companies table fails with
\* BadRequestError and never issues the INSERT, in every interleaving of the
\* SELECT and INSERT steps of concurrent calls for the same handle: at most
\* one call creates the company and every other call fails with
\* BadRequestError after its SELECT alone.
C22_DuplicateIsBadRequest ==
    /\ \A c \in Calls :
          (creating[c].pc = "done" /\ creating[c].threw # "none")
             => /\ creating[c].threw = "BadRequestError"
                /\ Len(creating[c].stmts) = 1
    /\ \A c, d \in Calls :
          (/\ c # d
           /\ creating[c].pc = "done" /\ creating[d].pc = "done"
           /\ creating[c].data.handle = creating[d].data.handle)
             => ~(creating[c].threw = "none" /\ creating[d].threw = "none")

\* C25: POST /users and GET /users run their handler only for an admin
\* identity: an authenticated non-admin and an anonymous caller are both
\* denied with an UnauthorizedError (401) and no user is created or listed.
C25_UsersAdminOnly ==
    res.op \in {"POST /users", "GET /users"}
        => /\ res.ran => (res.req.user # Undef /\ res.req.user.isAdmin = Bool(TRUE))
           /\ (res.req.user = Undef \/ res.req.user.isAdmin # Bool(TRUE))
                 => /\ ~res.ran
                    /\ res.threw = "UnauthorizedError"
                    /\ res.calls = <<>>
                    /\ res.stmts = <<>>

=============================================================================
